---- MODULE Spec2Model ----
(***************************************************************************)
(* Verification model of rollingstocknumber.py: the UIC rolling stock      *)
(* check digit (validate_uic_checksum), the old long-form computation      *)
(* (validate_uic_longform) and the command-line batch driver (main and the *)
(* __main__ block).                                                        *)
(*                                                                         *)
(* An identifier is a sequence of characters.  A printable ASCII character *)
(* is written as itself, a line feed as "LF", and any other character by   *)
(* its Unicode name.                                                       *)
(***************************************************************************)
EXTENDS Integers, Sequences, FiniteSets, TLC

VARIABLES python, uic, call, prev, lcall, edit, argv, todo, phase, stdout, status

vars == <<python, uic, call, prev, lcall, edit, argv, todo, phase, stdout, status>>

fvars == <<uic, call, prev, lcall, edit>>

mvars == <<argv, todo, phase, stdout, status>>

(***************************************************************************)
(* Bounds of the exploration.                                              *)
(***************************************************************************)
MaxTyped == 2

MaxPrefix == 2

MaxArgs == 3

(***************************************************************************)
(* Characters and the two str methods the code relies on.                  *)
(***************************************************************************)
AsciiDigits == {"0", "1", "2", "3", "4", "5", "6", "7", "8", "9"}

\* Decimal digits of other scripts: under Python 3 str.isdigit() is true
\* and int() converts them.
UnicodeDecimalDigits == {"ARABIC-INDIC DIGIT THREE"}

\* Digit characters that are not decimal: under Python 3 str.isdigit() is
\* true and int() raises ValueError.
UnicodeOtherDigits == {"SUPERSCRIPT TWO"}

NonDigits == {"A", "LF", "EN DASH", "COMBINING LOW LINE"}

Pythons == {2, 3}

\* str.isdigit on one character.  A Python 2 str is a byte string, where
\* only the ASCII digits qualify; a Python 3 str is Unicode text.
isdigit(ch, py) ==
  \/ ch \in AsciiDigits
  \/ py = 3 /\ ch \in UnicodeDecimalDigits \cup UnicodeOtherDigits

\* int() on a one-character string; -1 stands for the ValueError it raises.
int(ch) ==
  CASE ch = "0" -> 0 [] ch = "1" -> 1 [] ch = "2" -> 2 [] ch = "3" -> 3
    [] ch = "4" -> 4 [] ch = "5" -> 5 [] ch = "6" -> 6 [] ch = "7" -> 7
    [] ch = "8" -> 8 [] ch = "9" -> 9
    [] ch = "ARABIC-INDIC DIGIT THREE" -> 3
    [] OTHER -> -1

DigitChars == <<"0", "1", "2", "3", "4", "5", "6", "7", "8", "9">>

\* str() of a non-negative integer, as a sequence of characters.
RECURSIVE str(_)
str(n) ==
  IF n < 10 THEN <<DigitChars[n + 1]>>
  ELSE str(n \div 10) \o <<DigitChars[(n % 10) + 1]>>

\* Number of bytes of the UTF-8 encoding of a character.
Utf8Width(ch) ==
  CASE ch = "EN DASH" -> 3
    [] ch \in {"LATIN CAPITAL LETTER O WITH DIAERESIS", "COMBINING LOW LINE",
               "CYRILLIC CAPITAL LETTER E", "CYRILLIC CAPITAL LETTER VE",
               "CYRILLIC CAPITAL LETTER PE", "ARABIC-INDIC DIGIT THREE",
               "SUPERSCRIPT TWO"} -> 2
    [] OTHER -> 1

\* len() of a str: bytes under Python 2, code points under Python 3.
RECURSIVE len(_, _)
len(s, py) ==
  IF s = <<>> THEN 0
  ELSE (IF py = 2 THEN Utf8Width(Head(s)) ELSE 1) + len(Tail(s), py)

RECURSIVE sum(_)
sum(s) ==
  IF s = <<>> THEN 0 ELSE Head(s) + sum(Tail(s))

(***************************************************************************)
(* Outcome of a call: a returned value or a raised exception.  digits and  *)
(* value hold what the exception message shows after the identifier.       *)
(***************************************************************************)
Return(c) ==
  [kind |-> "return", msg |-> "", value |-> c, digits |-> <<>>]

Raise(kind, msg, d, n) ==
  [kind |-> kind, msg |-> msg, value |-> n, digits |-> d]

(***************************************************************************)
(* validate_uic_checksum, statement by statement.                          *)
(***************************************************************************)
\* filter(str.isdigit, uic)
filter_isdigit(s, py) ==
  LET keep(ch) == isdigit(ch, py) IN SelectSeq(s, keep)

\* map(int, ...) raises ValueError when a kept character has no int() value.
int_fails(chars) ==
  \E i \in 1..Len(chars) : int(chars[i]) = -1

map_int(chars) ==
  [i \in 1..Len(chars) |-> int(chars[i])]

\* Variant of last12: the truncation to twelve digits is missing.
last12_untruncated(s) ==
  s

\* s[-12:]
last12(s) ==
  IF Len(s) <= 12 THEN s ELSE SubSeq(s, Len(s) - 11, Len(s))

\* Variant of but_last: the claimed check digit stays in the sum.
but_last_whole(s) ==
  s

\* s[:-1]
but_last(s) ==
  IF Len(s) = 0 THEN <<>> ELSE SubSeq(s, 1, Len(s) - 1)

\* Variant of every_second: the slice starts at the last digit, s[-1::-2].
every_second_from_last(s) ==
  [k \in 1..((Len(s) + 1) \div 2) |-> s[Len(s) + 2 - 2 * k]]

\* s[-2::-2]: the elements at 0-based indices len-2, len-4, ..., in that order.
every_second(s) ==
  [k \in 1..(Len(s) \div 2) |-> s[Len(s) + 1 - 2 * k]]

\* Variant of lookup: list(range(5)) + list(range(-5,0)).
lookup_shifted ==
  <<0, 1, 2, 3, 4, -5, -4, -3, -2, -1>>

\* list(range(5)) + list(range(-4,1)), a 0-based list.
lookup ==
  <<0, 1, 2, 3, 4, -4, -3, -2, -1, 0>>

\* c = -sum(d[:-1] + [lookup[i] for i in d[-2::-2]]) % 10
checksum(d) ==
  LET alt == every_second(d)
      adj == [k \in 1..Len(alt) |-> lookup[alt[k] + 1]]
  IN  (-sum(but_last(d) \o adj)) % 10

\* len(d) in (7,8,12)
length_ok(d) ==
  Len(d) \in {7, 8, 12}

\* c is d[-1], on two integers of 0..9 (identity of CPython's small ints)
checksum_ok(c, d) ==
  c = d[Len(d)]

validate_uic_checksum(s, validate_length, validate_checksum, py) ==
  LET chars == filter_isdigit(s, py) IN
  IF int_fails(chars)
  THEN Raise("ValueError", "invalid literal for int()", <<>>, -1)
  ELSE
    LET d == last12(map_int(chars))
        c == checksum(d)
    IN  IF validate_length /\ ~length_ok(d)
        THEN Raise("IndexError", "Invalid number of digits", d, Len(d))
        ELSE IF validate_checksum /\ Len(d) = 0
        THEN Raise("IndexError", "list index out of range", <<>>, -1)
        ELSE IF validate_checksum /\ ~checksum_ok(c, d)
        THEN Raise("ValueError", "Invalid checksum", d, c)
        ELSE Return(c)

(***************************************************************************)
(* validate_uic_longform, statement by statement.                          *)
(***************************************************************************)
\* (2,1) * 6
multipliers ==
  <<2, 1, 2, 1, 2, 1, 2, 1, 2, 1, 2, 1>>

reversed(s) ==
  [i \in 1..Len(s) |-> s[Len(s) + 1 - i]]

Min(a, b) ==
  IF a < b THEN a ELSE b

\* [a*b for a,b in zip(multipliers, reversed(main_digits))]
multipled(main_digits) ==
  LET r == reversed(main_digits)
  IN  [i \in 1..Min(Len(multipliers), Len(r)) |-> multipliers[i] * r[i]]

\* ''.join(map(str, multipled))
RECURSIVE join_str(_)
join_str(ns) ==
  IF ns = <<>> THEN <<>> ELSE str(Head(ns)) \o join_str(Tail(ns))

validate_uic_longform(s, py) ==
  LET chars == filter_isdigit(s, py) IN
  IF int_fails(chars)
  THEN Raise("ValueError", "invalid literal for int()", <<>>, -1)
  ELSE
    LET digits == map_int(chars) IN
    IF ~(Len(digits) \in {7, 8, 12})
    THEN Raise("AssertionError", "len(digits) in (7,8,12)", digits, Len(digits))
    ELSE
      LET main_digits == but_last(digits)
          big_digits  == map_int(join_str(multipled(main_digits)))
          big_total   == sum(big_digits)
          check_digit == (-big_total) % 10
      IN  IF check_digit # digits[Len(digits)]
          THEN Raise("AssertionError", "check_digit == digits[-1]", digits, check_digit)
          ELSE Return(check_digit)

(***************************************************************************)
(* class testcases: the example corpora.                                   *)
(***************************************************************************)
uic_testcases ==
  <<
    <<"0", "0", "0", "-", "0", "0", "0", "-", "0">>,
    <<"1", "8", "2", " ", "0", "0", "2", "-", "6">>,
    <<"2", "2", "0", " ", "0", "7", "1", "-", "5">>,
    <<"2", "1", " ", "8", "0", " ", "1", "5", "5", " ", "9", " ", "0", "8", "4", "-", "5">>,
    <<"2", "1", "-", "8", "1", "-", "2", "4", "7", "1", "2", "1", "7", "-", "3">>,
    <<"3", "1", " ", "R", "I", "V", " ", "8", "1", " ",
      "LATIN CAPITAL LETTER O WITH DIAERESIS", "B", "B", " ", "6", "6", "5", " ", "0", " ",
      "2", "8", "6", "-", "0">>,
    <<"3", "3", " ", "R", "I", "V", " ", "7", "0", " ", "B", "R", " ", "7", "8", "9", "9",
      " ", "0", "4", "7", "-", "6">>,
    <<"3", "7", " ", "T", "E", "N", " ", "R", "I", "V", " ", "8", "4", " ", "N",
      "COMBINING LOW LINE", "L", "COMBINING LOW LINE", "-", "G", "E", "R", "S", " ", "4",
      "6", "6", "7", " ", "0", "1", "9", "-", "2", " ", "S", "f", "h", "i", "m", "m", "n",
      "s">>,
    <<"3", "7", ".", "8", "4", ".", "4", "6", "6", "7", ".", "0", "1", "9", "-", "2">>,
    <<"5", "1", "-", "8", "0", "-", "0", "8", "4", "3", "0", "0", "1", "-", "0">>,
    <<"0", "1", " ", "R", "I", "V", "LF", "8", "3", " ", "F", "S", "LF", "5", "7", "5",
      " ", "0", " ", "4", "2", "1", "-", "8">>,
    <<"6", "0", " ", "8", "0", " ", "9", "9", " ", "2", "6", " ", "1", "8", "7", "-", "7">>,
    <<"8", "2", " ", "7", "0", " ", "G", "B", "-", "D", "B", "S", "U", "K", " ", "6", "7",
      "2", "3", " ", "6", "7", "5", "-", "8", " ", "F", "a", "b", "n", "o", "o", "s", "s">>,
    <<"9", "1", " ", "5", "3", " ", "0", "4", "7", "2", " ", "0", "0", "1", "-", "3">>,
    <<"9", "3", " ", "7", "0", " ", "3", "7", "4", "0", " ", "0", "2", "1", "EN DASH", "8",
      " ", "G", "B", "-", "E", "I", "L">>,
    <<"C", "H", "-", "F", "P", "C", " ", "6", "2", " ", "8", "5", " ", "7", "8", "-", "9",
      "0", "0", "4", "9", "-", "8", " ", "W", "L", "A", "B", "m", "z">>,
    <<"K", "T", "-", "F", "I", " ", "S", "m", "6", " ", "9", "4", " ", "1", "0", " ", "3",
      "8", "9", "0", "0", "0", "1", "-", "0">>
  >>

indian_testcases ==
  <<
    <<"B", "O", "X", "N", "H", "S", " ", "1", "2", " ", "0", "3", " ", "0", "3", " ", "4",
      "5", "6", "7", "-", "9">>,
    <<"B", "C", "N", "A", "H", "S", " ", "3", "1", "1", "0", "1", "6", "9", "5", "2", "1",
      "5">>
  >>

russian_testcases ==
  <<
    <<"2", "CYRILLIC CAPITAL LETTER E", "CYRILLIC CAPITAL LETTER VE", "1", "2", "0", "-",
      "0", "0", "2">>,
    <<"3", "CYRILLIC CAPITAL LETTER PE", "2", "0", " ", "0", "1", "2">>
  >>

australian_testcases ==
  <<
    <<"A", "M", "O", "X", "1", "8", "S">>
  >>

\* Examples of the module and function docstrings.
docstring_example ==
  <<"1", "1", "1", "-", "1", "1", "1", "-", "1">>

docstring_generate ==
  <<"1", "2", "3", "-", "4", "5", "6", "0">>

Range(s) ==
  {s[i] : i \in 1..Len(s)}

Seeds ==
  Range(uic_testcases) \cup Range(indian_testcases) \cup Range(russian_testcases)
    \cup Range(australian_testcases) \cup {docstring_example, docstring_generate}

(***************************************************************************)
(* Callers of validate_uic_checksum: a caller holds an identifier, calls   *)
(* the function on it, and may derive a variant of the identifier and call *)
(* again.  call is the latest call on the current identifier, prev the     *)
(* call on the identifier the current one was derived from.                *)
(***************************************************************************)
NoOutcome ==
  [kind |-> "none", msg |-> "", value |-> -1, digits |-> <<>>]

NoCall ==
  [done |-> FALSE, uic |-> <<>>, validate_length |-> TRUE,
   validate_checksum |-> TRUE, out |-> NoOutcome]

NoEdit ==
  [op |-> "none", chars |-> <<>>, pos |-> 0]

TypedChars ==
  AsciiDigits \cup {"-"} \cup UnicodeDecimalDigits \cup UnicodeOtherDigits

InsertChars ==
  NonDigits \cup UnicodeDecimalDigits \cup UnicodeOtherDigits

\* The strings of 1..n ASCII digits.
DigitStrings(n) ==
  UNION {[1..k -> AsciiDigits] : k \in 1..n}

Insert(s, pos, ch) ==
  SubSeq(s, 1, pos) \o <<ch>> \o SubSeq(s, pos + 1, Len(s))

\* Position of the last ASCII digit of s, 0 when it has none.
LastDigitPos(s) ==
  LET ps == {i \in 1..Len(s) : s[i] \in AsciiDigits}
  IN  IF ps = {} THEN 0 ELSE CHOOSE i \in ps : \A j \in ps : j <= i

ReplaceLastDigit(s, ch) ==
  [s EXCEPT ![LastDigitPos(s)] = ch]

Init ==
  /\ python \in Pythons
  /\ uic = <<>>
  /\ call = NoCall
  /\ prev = NoCall
  /\ lcall = NoOutcome
  /\ edit = NoEdit
  /\ argv = <<>>
  /\ todo = <<>>
  /\ phase = "idle"
  /\ stdout = <<>>
  /\ status = "idle"

\* Take one of the example identifiers.
Load(tc) ==
  /\ edit.op = "none"
  /\ uic' = tc
  /\ call' = NoCall
  /\ prev' = NoCall
  /\ lcall' = NoOutcome
  /\ edit' = [op |-> "load", chars |-> <<>>, pos |-> 0]
  /\ UNCHANGED <<python, mvars>>

\* Build a short identifier character by character.
Type(ch) ==
  /\ edit.op \in {"none", "type"}
  /\ Len(uic) < MaxTyped
  /\ uic' = Append(uic, ch)
  /\ call' = NoCall
  /\ lcall' = NoOutcome
  /\ edit' = [op |-> "type", chars |-> <<ch>>, pos |-> Len(uic)]
  /\ UNCHANGED <<python, prev, mvars>>

\* validate_uic_checksum(uic, validate_length, validate_checksum) on an
\* example, a part of one or a typed identifier.
Call(validate_length, validate_checksum) ==
  /\ edit.op \in {"none", "type", "load", "suffix"}
  /\ call' = [done |-> TRUE, uic |-> uic, validate_length |-> validate_length,
              validate_checksum |-> validate_checksum,
              out |-> validate_uic_checksum(uic, validate_length,
                                            validate_checksum, python)]
  /\ UNCHANGED <<python, uic, prev, lcall, edit, mvars>>

\* Cross-validation: validate_uic_longform(uic) on an identifier that
\* validate_uic_checksum accepted with its default flags.
Longform ==
  /\ call.done
  /\ call.validate_length
  /\ call.validate_checksum
  /\ call.out.kind = "return"
  /\ lcall' = validate_uic_longform(uic, python)
  /\ UNCHANGED <<python, uic, call, prev, edit, mvars>>

\* The caller derives a variant s of its identifier and calls again; the
\* call on the identifier it started from is kept in prev.
Derive(s, e, validate_length, validate_checksum) ==
  /\ uic' = s
  /\ prev' = call
  /\ call' = [done |-> TRUE, uic |-> s, validate_length |-> validate_length,
              validate_checksum |-> validate_checksum,
              out |-> validate_uic_checksum(s, validate_length,
                                            validate_checksum, python)]
  /\ lcall' = NoOutcome
  /\ edit' = e
  /\ UNCHANGED <<python, mvars>>

\* Insert one character that is not an ASCII digit anywhere in an example
\* and repeat the call with the same flags.
InsertChar(pos, ch) ==
  /\ edit.op = "load"
  /\ call.done
  /\ pos \in 0..Len(uic)
  /\ Derive(Insert(uic, pos, ch), [op |-> "insert", chars |-> <<ch>>, pos |-> pos],
            call.validate_length, call.validate_checksum)

\* Prepend extra leading digits to an accepted twelve-digit number and
\* repeat the call with the default flags.
Prepend(ds) ==
  /\ edit.op = "load"
  /\ call.done
  /\ call.validate_length
  /\ call.validate_checksum
  /\ call.out.kind = "return"
  /\ Len(filter_isdigit(uic, python)) = 12
  /\ Derive(ds \o uic, [op |-> "prepend", chars |-> ds, pos |-> 0], TRUE, TRUE)

\* Keep only the characters after position k of an example.
Suffix(k) ==
  /\ edit.op = "load"
  /\ ~call.done
  /\ k \in 1..Len(uic)
  /\ uic' = SubSeq(uic, k + 1, Len(uic))
  /\ edit' = [op |-> "suffix", chars |-> <<>>, pos |-> k]
  /\ UNCHANGED <<python, call, prev, lcall, mvars>>

\* The generator use of the docstring, first half: overwrite the final
\* digit with a placeholder and call with validate_checksum=False.
Placeholder(p, validate_length) ==
  /\ edit.op = "load"
  /\ ~call.done
  /\ LastDigitPos(uic) > 0
  /\ Derive(ReplaceLastDigit(uic, p),
            [op |-> "placeholder", chars |-> <<p>>, pos |-> LastDigitPos(uic)],
            validate_length, FALSE)

\* Second half: put the returned digit in the place of the placeholder and
\* call with the default flags.
Generate ==
  /\ edit.op = "placeholder"
  /\ call.done
  /\ ~call.validate_checksum
  /\ call.out.kind = "return"
  /\ Derive(ReplaceLastDigit(uic, str(call.out.value)[1]),
            [op |-> "generate", chars |-> str(call.out.value), pos |-> edit.pos],
            TRUE, TRUE)

Next ==
  \/ \E tc \in Seeds : Load(tc)
  \/ \E ch \in TypedChars : Type(ch)
  \/ \E vl \in BOOLEAN, vc \in BOOLEAN : Call(vl, vc)
  \/ Longform
  \/ \E pos \in 0..Len(uic), ch \in InsertChars : InsertChar(pos, ch)
  \/ \E ds \in DigitStrings(MaxPrefix) : Prepend(ds)
  \/ \E k \in 1..Len(uic) : Suffix(k)
  \/ \E p \in AsciiDigits, vl \in BOOLEAN : Placeholder(p, vl)
  \/ Generate

Spec ==
  Init /\ [][Next]_vars

(***************************************************************************)
(* The command line: main and the __main__ block.                          *)
(***************************************************************************)
\* identity.replace('\n', ' ')
replace_newlines(s) ==
  [i \in 1..Len(s) |-> IF s[i] = "LF" THEN " " ELSE s[i]]

\* Variant of main: the exception is swallowed and the batch goes on.
main_swallow(identity, py) ==
  LET out == validate_uic_checksum(identity, TRUE, TRUE, py)
  IN  IF out.kind = "return"
      THEN [raised |-> FALSE,
            printed |-> <<[checksum |-> out.value, text |-> replace_newlines(identity)]>>]
      ELSE [raised |-> FALSE, printed |-> <<>>]

\* main(identity): the printed lines, or the exception that leaves it.
main(identity, py) ==
  LET out == validate_uic_checksum(identity, TRUE, TRUE, py)
  IN  IF out.kind = "return"
      THEN [raised |-> FALSE,
            printed |-> <<[checksum |-> out.value, text |-> replace_newlines(identity)]>>]
      ELSE [raised |-> TRUE, printed |-> <<>>]

\* sorted(list, key=len): a stable sort on the length.
RECURSIVE insert_sorted(_, _, _)
insert_sorted(x, s, py) ==
  IF s = <<>> THEN <<x>>
  ELSE IF len(x, py) < len(Head(s), py) THEN <<x>> \o s
  ELSE <<Head(s)>> \o insert_sorted(x, Tail(s), py)

RECURSIVE sorted_by_len(_, _)
sorted_by_len(s, py) ==
  IF s = <<>> THEN <<>>
  ELSE insert_sorted(s[Len(s)], sorted_by_len(SubSeq(s, 1, Len(s) - 1), py), py)

ArgPool ==
  {docstring_example, docstring_generate, uic_testcases[11], australian_testcases[1]}

ArgLists ==
  UNION {[1..k -> ArgPool] : k \in 0..MaxArgs}

InitMain ==
  /\ python \in Pythons
  /\ uic = <<>>
  /\ call = NoCall
  /\ prev = NoCall
  /\ lcall = NoOutcome
  /\ edit = NoEdit
  /\ argv \in ArgLists
  /\ todo = argv
  /\ phase = "argv"
  /\ stdout = <<>>
  /\ status = "running"

\* One application of main by map(); an exception leaves the process.
MainCall ==
  /\ status = "running"
  /\ todo # <<>>
  /\ LET r == main(Head(todo), python) IN
       IF r.raised
       THEN /\ status' = "traceback"
            /\ UNCHANGED <<todo, stdout>>
       ELSE /\ stdout' = stdout \o r.printed
            /\ todo' = Tail(todo)
            /\ UNCHANGED status
  /\ UNCHANGED <<python, fvars, argv, phase>>

\* if not list(map(main, sys.argv[1:])): fall back on the built-in examples.
ArgvDone ==
  /\ status = "running"
  /\ phase = "argv"
  /\ todo = <<>>
  /\ IF argv = <<>>
     THEN /\ phase' = "testcases"
          /\ todo' = sorted_by_len(uic_testcases, python)
          /\ UNCHANGED status
     ELSE /\ status' = "exit"
          /\ UNCHANGED <<phase, todo>>
  /\ UNCHANGED <<python, fvars, argv, stdout>>

TestcasesDone ==
  /\ status = "running"
  /\ phase = "testcases"
  /\ todo = <<>>
  /\ status' = "exit"
  /\ UNCHANGED <<python, fvars, argv, todo, phase, stdout>>

NextMain ==
  \/ MainCall
  \/ ArgvDone
  \/ TestcasesDone

SpecMain ==
  InitMain /\ [][NextMain]_vars

(***************************************************************************)
(* The check digit as the specification states it, written independently   *)
(* of the code's slices and lookup table.                                  *)
(***************************************************************************)
DigitValue(ch) ==
  CHOOSE v \in 0..9 : DigitChars[v + 1] = ch

\* The values of the ASCII decimal digits of s, in order.
AsciiDigitsOf(s) ==
  LET keep(ch) == ch \in AsciiDigits
      ds == SelectSeq(s, keep)
  IN  [i \in 1..Len(ds) |-> DigitValue(ds[i])]

\* No character of s is a digit of another script or a non-decimal digit.
NoForeignDigit(s) ==
  \A i \in 1..Len(s) : s[i] \notin UnicodeDecimalDigits \cup UnicodeOtherDigits

Rightmost12(d) ==
  [i \in 1..Min(12, Len(d)) |-> d[Len(d) - Min(12, Len(d)) + i]]

\* Contribution of the digit v at position pos counted from the right end
\* of d, the last digit being at position 1.
Contribution(v, pos) ==
  IF pos % 2 = 0
  THEN (IF 2 * v >= 10 THEN 2 * v - 9 ELSE 2 * v)
  ELSE v

WeightedSum(d) ==
  sum([i \in 1..(Len(d) - 1) |-> Contribution(d[i], Len(d) - i + 1)])

CheckDigit(d) ==
  (10 - (WeightedSum(d) % 10)) % 10

LengthMismatch(out) ==
  out.kind = "IndexError" /\ out.msg = "Invalid number of digits"

ChecksumMismatch(out) ==
  out.kind = "ValueError" /\ out.msg = "Invalid checksum"

\* Same returned digit, or same kind of failure.
SameOutcome(a, b) ==
  a.kind = b.kind /\ a.msg = b.msg /\ a.value = b.value

\* C1: with both validations disabled, a digit sequence d of 1 to 12 digits
\* yields c = (-S) mod 10 in 0..9, S being the sum over all digits but the
\* last, the digits at positions 2, 4, 6, ... from the right end doubled
\* (minus 9 from 10 on); replacing the last digit does not change c.
C1_CheckDigitFormula ==
  LET d == AsciiDigitsOf(uic) IN
  (/\ call.done
   /\ ~call.validate_length
   /\ ~call.validate_checksum
   /\ NoForeignDigit(uic)
   /\ Len(d) \in 1..12)
  => /\ call.out = Return(CheckDigit(d))
     /\ call.out.value \in 0..9
     /\ \A p \in AsciiDigits :
          validate_uic_checksum(ReplaceLastDigit(uic, p), FALSE, FALSE, python)
            = call.out

\* C1 witness: twelve digits with a digit of 5 or more at a doubled position.
C1_Witness ==
  LET d == AsciiDigitsOf(uic) IN
  /\ call.done
  /\ ~call.validate_length
  /\ ~call.validate_checksum
  /\ NoForeignDigit(uic)
  /\ Len(d) = 12
  /\ \E i \in 1..11 : d[i] >= 5 /\ (12 - i + 1) % 2 = 0
  /\ call.out.kind = "return"
  /\ call.out.value # 0

\* C2: with validate_checksum enabled and the length gate passed or off,
\* the call raises the checksum mismatch exactly when the computed digit
\* differs from the last extracted digit, and returns the digit otherwise.
C2_ChecksumGate ==
  LET d == Rightmost12(AsciiDigitsOf(uic)) IN
  (/\ call.done
   /\ call.validate_checksum
   /\ (~call.validate_length \/ Len(d) \in {7, 8, 12}))
  => IF Len(d) > 0 /\ CheckDigit(d) # d[Len(d)]
     THEN ChecksumMismatch(call.out)
     ELSE call.out = Return(CheckDigit(d))

\* C3: with validate_length enabled, every identifier whose extracted digit
\* count is not 7, 8 or 12 raises the length mismatch, whatever the
\* checksum and whatever validate_checksum.
C3_LengthGateFirst ==
  (/\ call.done
   /\ call.validate_length
   /\ Len(last12(filter_isdigit(uic, python))) \notin {7, 8, 12})
  => LengthMismatch(call.out)

\* C4: generator round trip: the digit g returned for m followed by a
\* placeholder with validate_checksum=False makes m followed by g pass the
\* call with both validations enabled, which returns g.
C4_GeneratorRoundTrip ==
  (/\ edit.op = "generate"
   /\ Len(AsciiDigitsOf(uic)) \in {7, 8, 12})
  => /\ call.validate_length
     /\ call.validate_checksum
     /\ ~prev.validate_checksum
     /\ call.out = Return(prev.out.value)
     /\ AsciiDigitsOf(uic)[Len(AsciiDigitsOf(uic))] = prev.out.value

\* C4 witness: a twelve-digit number whose placeholder was not the right
\* digit, completed by the generated digit and accepted.
C4_Witness ==
  /\ edit.op = "generate"
  /\ Len(AsciiDigitsOf(uic)) = 12
  /\ prev.uic # uic
  /\ call.out.kind = "return"
  /\ call.out.value = prev.out.value

\* C5: extra leading digits in front of a valid twelve-digit number change
\* neither the check digit nor the success of the call with default flags.
C5_RightmostTwelve ==
  edit.op = "prepend"
  => /\ prev.out.kind = "return"
     /\ call.validate_length
     /\ call.validate_checksum
     /\ call.out = prev.out
     /\ Len(AsciiDigitsOf(uic)) > 12

\* C5 witness: two or more digits were prepended and the call succeeded.
C5_Witness ==
  /\ edit.op = "prepend"
  /\ Len(edit.chars) >= 2
  /\ Len(AsciiDigitsOf(uic)) >= 14
  /\ call.out.kind = "return"

\* C6: inserting a character that is not an ASCII decimal digit changes
\* neither the returned digit nor the success or error outcome, for each
\* combination of the two flags.
C6_NonDigitTolerance ==
  (/\ edit.op = "insert"
   /\ edit.chars[1] \notin AsciiDigits)
  => /\ call.validate_length = prev.validate_length
     /\ call.validate_checksum = prev.validate_checksum
     /\ SameOutcome(call.out, prev.out)

\* C7: with validate_length disabled, a digit count other than 7, 8 or 12
\* (0 included) never raises the length mismatch; the call returns a digit
\* of 0..9 when validate_checksum is off or the last digit matches, and the
\* checksum mismatch is the only error it can raise.
C7_LengthGateIndependence ==
  (/\ call.done
   /\ ~call.validate_length
   /\ Len(last12(filter_isdigit(uic, python))) \notin {7, 8, 12})
  => /\ ~LengthMismatch(call.out)
     /\ \/ call.out.kind = "return" /\ call.out.value \in 0..9
        \/ call.validate_checksum /\ ChecksumMismatch(call.out)

\* C8: every identifier that validate_uic_checksum accepts with its default
\* flags passes validate_uic_longform too, with the same check digit.
C8_LongformAgrees ==
  lcall.kind # "none"
  => /\ call.out.kind = "return"
     /\ lcall = call.out

\* C9: each built-in European example and each scenario of the
\* specification passes with the default flags and returns its last digit.
C9_ExamplesPass ==
  (/\ call.done
   /\ call.validate_length
   /\ call.validate_checksum
   /\ uic \in Range(uic_testcases) \cup {docstring_example})
  => call.out = Return(DigitValue(uic[LastDigitPos(uic)]))

\* C9 witness: the Finnish example, which needs the truncation, passed.
C9_Witness ==
  /\ call.done
  /\ call.validate_length
  /\ call.validate_checksum
  /\ uic = uic_testcases[17]
  /\ call.out = Return(0)

(***************************************************************************)
(* The batch of the command line.                                          *)
(***************************************************************************)
\* The identifiers the run maps main over.
Batch ==
  IF phase = "testcases" THEN sorted_by_len(uic_testcases, python) ELSE argv

Valid(identity) ==
  validate_uic_checksum(identity, TRUE, TRUE, python).kind = "return"

\* Index of the first identifier of the batch that fails, Len + 1 if none.
FirstFailure ==
  LET bad == {i \in 1..Len(Batch) : ~Valid(Batch[i])}
  IN  IF bad = {} THEN Len(Batch) + 1
      ELSE CHOOSE i \in bad : \A j \in bad : i <= j

SuccessLine(identity) ==
  [checksum |-> validate_uic_checksum(identity, TRUE, TRUE, python).value,
   text |-> replace_newlines(identity)]

Terminated ==
  status \in {"exit", "traceback"}

\* C10 as stated: a failure affects only its own identifier; every valid
\* identifier of the batch has its success line printed when the run ends.
C10_FailureIsLocal ==
  Terminated
  => \A i \in 1..Len(Batch) :
       Valid(Batch[i]) => \E j \in 1..Len(stdout) : stdout[j] = SuccessLine(Batch[i])

\* C10 amended: identifiers are processed in order; the valid identifiers
\* in front of the first failing one get their success lines, and the
\* first failure ends the run, nothing behind it being validated or printed.
C10_FirstFailureEndsRun ==
  /\ Len(stdout) < FirstFailure
  /\ stdout = [i \in 1..Len(stdout) |-> SuccessLine(Batch[i])]
  /\ status = "traceback" => FirstFailure <= Len(Batch) /\ Len(stdout) = FirstFailure - 1
  /\ status = "exit" => FirstFailure = Len(Batch) + 1 /\ Len(stdout) = Len(Batch)

\* C10 witness: the run ended on a failure after one success line, a valid
\* identifier behind the failing one being left unprinted.
C10_Witness ==
  /\ status = "traceback"
  /\ Len(stdout) = 1
  /\ FirstFailure = 2
  /\ \E i \in 3..Len(Batch) : Valid(Batch[i])

====
